---- MODULE Spec2Model ----
(***************************************************************************)
(* Model of scripts/update_catalogs.py: the catalog locator                *)
(* (parse_version_from_name, pick_latest), the format-detecting parser     *)
(* (parse_table), the two normalizers (normalize_2x, normalize_3x) and the *)
(* pipeline driver (main).                                                 *)
(*                                                                         *)
(* Python strings are sequences of one-character strings, so that lower(), *)
(* strip(), substring search, splitting and the version regex are computed *)
(* rather than assumed.  Optional values are sequences of length <= 1.     *)
(***************************************************************************)
EXTENDS Integers, Sequences, FiniteSets, TLC

VARIABLES pc, files, f3, f2, txt3, df3, norm3, txt2, df2, norm2,
          raw_dir, data_dir, exit_code, log, call, ret

mainVars == <<pc, files, f3, f2, txt3, df3, norm3, txt2, df2, norm2,
              raw_dir, data_dir, exit_code, log>>
vars == <<pc, files, f3, f2, txt3, df3, norm3, txt2, df2, norm2,
          raw_dir, data_dir, exit_code, log, call, ret>>

(***************************************************************************)
(* Bounds of the model                                                     *)
(***************************************************************************)
MaxFiles == 3

(***************************************************************************)
(* Generic helpers                                                         *)
(***************************************************************************)
None == <<>>
Some(x) == <<x>>

Range(s) == {s[i] : i \in 1..Len(s)}

SeqsUpTo(S, n) == UNION {[1..k -> S] : k \in 0..n}

RECURSIVE Flatten(_)
Flatten(ss) == IF ss = <<>> THEN <<>> ELSE Head(ss) \o Flatten(Tail(ss))

(***************************************************************************)
(* Python str operations                                                   *)
(***************************************************************************)
UpperChars == <<"A","B","C","D","E","F","G","H","I","J","K","L","M",
                "N","O","P","Q","R","S","T","U","V","W","X","Y","Z">>
LowerChars == <<"a","b","c","d","e","f","g","h","i","j","k","l","m",
                "n","o","p","q","r","s","t","u","v","w","x","y","z">>

LowerChar(c) ==
    IF \E i \in 1..26 : UpperChars[i] = c
    THEN LowerChars[CHOOSE i \in 1..26 : UpperChars[i] = c]
    ELSE c

\* str.lower()
Lower(s) == [i \in 1..Len(s) |-> LowerChar(s[i])]

IsSpace(c) == c \in {" ", "\t", "\n", "\r"}

RECURSIVE LStrip(_)
LStrip(s) == IF s # <<>> /\ IsSpace(Head(s)) THEN LStrip(Tail(s)) ELSE s

RECURSIVE RStrip(_)
RStrip(s) == IF s # <<>> /\ IsSpace(s[Len(s)])
             THEN RStrip(SubSeq(s, 1, Len(s) - 1)) ELSE s

\* str.strip()
Strip(s) == RStrip(LStrip(s))

\* s at position i starts with p
StartsAt(s, i, p) ==
    /\ i + Len(p) - 1 <= Len(s)
    /\ \A k \in 1..Len(p) : s[i + k - 1] = p[k]

\* p in s
Contains(s, p) == \E i \in 1..(Len(s) + 1) : StartsAt(s, i, p)

\* s.startswith(p)
StartsWith(s, p) == StartsAt(s, 1, p)

\* s.endswith(p)
EndsWith(s, p) == Len(p) <= Len(s) /\ StartsAt(s, Len(s) - Len(p) + 1, p)

\* re.split on a set of one-character delimiters
RECURSIVE SplitOn(_, _, _)
SplitOn(s, delims, acc) ==
    IF s = <<>> THEN <<acc>>
    ELSE IF Head(s) \in delims THEN <<acc>> \o SplitOn(Tail(s), delims, <<>>)
    ELSE SplitOn(Tail(s), delims, Append(acc, Head(s)))

Split(s, delims) == SplitOn(s, delims, <<>>)

Digits == <<"0","1","2","3","4","5","6","7","8","9">>
IsDigit(c) == \E d \in 1..10 : Digits[d] = c
DigitVal(c) == (CHOOSE d \in 1..10 : Digits[d] = c) - 1

\* int(s) for a string of decimal digits
RECURSIVE IntOf(_)
IntOf(s) == IF s = <<>> THEN 0
            ELSE 10 * IntOf(SubSeq(s, 1, Len(s) - 1)) + DigitVal(s[Len(s)])

(***************************************************************************)
(* Version Extractor: _VER_RE and parse_version_from_name                  *)
(***************************************************************************)
\* first position >= i that is past a run of whitespace (\s*)
RECURSIVE SkipSpaces(_, _)
SkipSpaces(s, i) ==
    IF i <= Len(s) /\ IsSpace(s[i]) THEN SkipSpaces(s, i + 1) ELSE i

\* first position >= i that is past a run of digits (\d+ is greedy, and
\* what follows it in the pattern is never a digit)
RECURSIVE SkipDigits(_, _)
SkipDigits(s, i) ==
    IF i <= Len(s) /\ IsDigit(s[i]) THEN SkipDigits(s, i + 1) ELSE i

KwContent  == <<"c","o","n","t","e","n","t">>
KwTaxonomy == <<"t","a","x","o","n","o","m","y">>

\* _VER_RE matched at position i of s (re.I: matched on the lower-cased
\* name); the result is None or Some(<<major, minor>>)
VerReMatchAt(s, i) ==
    LET l  == Lower(s)
        a  == i + Len(KwContent)
        b  == SkipSpaces(l, a)
        c  == b + Len(KwTaxonomy)
        d  == SkipSpaces(l, c)
        e  == SkipDigits(l, d)
        g  == SkipDigits(l, e + 1)
    IN  IF /\ StartsAt(l, i, KwContent)
           /\ StartsAt(l, b, KwTaxonomy)
           /\ e > d
           /\ e <= Len(l) /\ l[e] = "."
           /\ g > e + 1
        THEN Some(<<IntOf(SubSeq(l, d, e - 1)), IntOf(SubSeq(l, e + 1, g - 1))>>)
        ELSE None

\* _VER_RE.search(name): the leftmost match
RECURSIVE VerReSearch(_, _)
VerReSearch(s, i) ==
    IF i > Len(s) THEN None
    ELSE LET m == VerReMatchAt(s, i)
         IN  IF m # None THEN m ELSE VerReSearch(s, i + 1)

parse_version_from_name(name) == VerReSearch(name, 1)

(***************************************************************************)
(* Catalog Locator: pick_latest                                            *)
(***************************************************************************)
FileMeta(n) == [name |-> n, download_url |-> n]

\* the candidates loop: files of the requested major, in listing order,
\* each paired with its version
RECURSIVE Candidates(_, _)
Candidates(fs, major) ==
    IF fs = <<>> THEN <<>>
    ELSE LET ver == parse_version_from_name(Head(fs).name)
         IN  IF ver # None /\ ver[1][1] = major
             THEN <<[ver |-> ver[1], f |-> Head(fs)]>> \o Candidates(Tail(fs), major)
             ELSE Candidates(Tail(fs), major)

\* InsertDesc without reverse=True: the list is kept in ascending order
RECURSIVE InsertDesc_ascending(_, _)
InsertDesc_ascending(sorted, c) ==
    IF sorted = <<>> THEN <<c>>
    ELSE IF Head(sorted).ver[2] <= c.ver[2]
         THEN <<Head(sorted)>> \o InsertDesc_ascending(Tail(sorted), c)
         ELSE <<c>> \o sorted

\* InsertDesc of an unstable sort: an element goes in front of its equals
RECURSIVE InsertDesc_unstable(_, _)
InsertDesc_unstable(sorted, c) ==
    IF sorted = <<>> THEN <<c>>
    ELSE IF Head(sorted).ver[2] > c.ver[2]
         THEN <<Head(sorted)>> \o InsertDesc_unstable(Tail(sorted), c)
         ELSE <<c>> \o sorted

\* insert c into a list sorted by descending minor, behind every element
\* whose minor is >= its own (list.sort is stable, also with reverse=True)
RECURSIVE InsertDesc(_, _)
InsertDesc(sorted, c) ==
    IF sorted = <<>> THEN <<c>>
    ELSE IF Head(sorted).ver[2] >= c.ver[2]
         THEN <<Head(sorted)>> \o InsertDesc(Tail(sorted), c)
         ELSE <<c>> \o sorted

\* candidates.sort(key=lambda x: x[0][1], reverse=True)
RECURSIVE SortByMinorDesc(_, _)
SortByMinorDesc(cands, acc) ==
    IF cands = <<>> THEN acc
    ELSE SortByMinorDesc(Tail(cands), InsertDesc(acc, Head(cands)))

pick_latest(fs, major) ==
    LET candidates == Candidates(fs, major)
    IN  IF candidates = <<>> THEN None
        ELSE Some(SortByMinorDesc(candidates, <<>>)[1].f)

(***************************************************************************)
(* Python values held by JSON documents and DataFrame cells.  A value is a *)
(* tagged record: str (s), null (None), nan (the float NaN pandas puts in  *)
(* an empty cell), bool (b), num (n), arr (a) and obj (o, a sequence of    *)
(* key/value pairs in document order).                                     *)
(***************************************************************************)
VStr(s)  == [t |-> "str", s |-> s]
VNone    == [t |-> "null"]
VNaN     == [t |-> "nan"]
VBool(b) == [t |-> "bool", b |-> b]
VNum(n)  == [t |-> "num", n |-> n]
VArr(a)  == [t |-> "arr", a |-> a]
VObj(o)  == [t |-> "obj", o |-> o]

\* bool(v): NaN is a non-zero float and therefore true
Truthy(v) ==
    CASE v.t = "str"  -> v.s # <<>>
      [] v.t = "null" -> FALSE
      [] v.t = "nan"  -> TRUE
      [] v.t = "bool" -> v.b
      [] v.t = "num"  -> v.n # 0
      [] v.t = "arr"  -> v.a # <<>>
      [] v.t = "obj"  -> v.o # <<>>

\* a or b
PyOr(a, b) == IF Truthy(a) THEN a ELSE b

RECURSIVE DecimalOf(_)
DecimalOf(n) == IF n < 10 THEN <<Digits[n + 1]>>
                ELSE Append(DecimalOf(n \div 10), Digits[(n % 10) + 1])

\* str(v); the repr of a list or dict is abridged to its brackets
PyStr(v) ==
    CASE v.t = "str"  -> v.s
      [] v.t = "null" -> <<"N","o","n","e">>
      [] v.t = "nan"  -> <<"n","a","n">>
      [] v.t = "bool" -> IF v.b THEN <<"T","r","u","e">> ELSE <<"F","a","l","s","e">>
      [] v.t = "num"  -> DecimalOf(v.n)
      [] v.t = "arr"  -> <<"[","]">>
      [] v.t = "obj"  -> <<"{","}">>

\* str(v or "").strip()
StrOrEmptyStripped(v) == Strip(PyStr(PyOr(v, VStr(<<>>))))

\* dict.get(key): the value of the last pair with that key, None if absent
RECURSIVE DictGet(_, _)
DictGet(o, key) ==
    IF o = <<>> THEN VNone
    ELSE IF o[Len(o)].k = key THEN o[Len(o)].v
    ELSE DictGet(SubSeq(o, 1, Len(o) - 1), key)

(***************************************************************************)
(* pandas DataFrame: column labels and rows of cells aligned with them     *)
(***************************************************************************)
DataFrame(columns, rows) == [columns |-> columns, rows |-> rows]

EmptyDataFrame == DataFrame(<<>>, <<>>)

\* row.get(col): the cell under the label col, None if there is no such label
RowGet(df, row, col) ==
    IF \E i \in 1..Len(df.columns) : df.columns[i] = col
    THEN row[CHOOSE i \in 1..Len(df.columns) : df.columns[i] = col]
    ELSE VNone

Ok(v)  == [ok |-> TRUE, val |-> v]
Err(e) == [ok |-> FALSE, err |-> e]

(***************************************************************************)
(* pandas.read_csv(sio, sep=sep, header=header_idx) with its defaults      *)
(***************************************************************************)
\* str.splitlines(): no empty last line after a final line break
SplitLines(text) ==
    LET parts == Split(text, {"\n"})
    IN  IF parts[Len(parts)] = <<>> THEN SubSeq(parts, 1, Len(parts) - 1) ELSE parts

\* skip_blank_lines=True: the tokenizer drops a line that holds nothing but
\* whitespace other than the delimiter
IsBlankLine(line, sep) == \A i \in 1..Len(line) : line[i] \in ({" ", "\t"} \ {sep})

RECURSIVE NonBlank(_, _)
NonBlank(lines, sep) ==
    IF lines = <<>> THEN <<>>
    ELSE IF IsBlankLine(Head(lines), sep) THEN NonBlank(Tail(lines), sep)
    ELSE <<Head(lines)>> \o NonBlank(Tail(lines), sep)

\* column labels of a header row: an empty token is named "Unnamed: i", a
\* repeated token gets the suffix ".k"
HeaderLabels(tokens) ==
    [i \in 1..Len(tokens) |->
        LET earlier == Cardinality({j \in 1..(i - 1) : tokens[j] = tokens[i]})
        IN  IF tokens[i] = <<>>
            THEN <<"U","n","n","a","m","e","d",":"," ">> \o DecimalOf(i - 1)
            ELSE IF earlier > 0 THEN tokens[i] \o <<".">> \o DecimalOf(earlier)
            ELSE tokens[i]]

\* a field of a data row: the empty field is NaN, any other stays a string
\* (the fields of this model are never numeric or one of the NA spellings)
CellOf(field) == IF field = <<>> THEN VNaN ELSE VStr(field)

\* a data row of n columns: short rows are padded with NaN
RowOf(fields, n) ==
    [i \in 1..n |-> IF i <= Len(fields) THEN CellOf(fields[i]) ELSE VNaN]

read_csv(text, sep, header) ==
    LET lines == NonBlank(SplitLines(text), sep)
    IN  IF header + 1 > Len(lines) THEN Err("ParserError")
        ELSE LET tokens == Split(lines[header + 1], {sep})
                 data   == SubSeq(lines, header + 2, Len(lines))
             IN  IF \E i \in 1..Len(data) : Len(Split(data[i], {sep})) > Len(tokens)
                 THEN Err("ParserError")
                 ELSE Ok(DataFrame(HeaderLabels(tokens),
                                   [i \in 1..Len(data) |->
                                       RowOf(Split(data[i], {sep}), Len(tokens))]))

(***************************************************************************)
(* Format-Detecting Parser: parse_table                                    *)
(***************************************************************************)
HeaderWindow == 10

KwUniqueId == <<"u","n","i","q","u","e"," ","i","d">>
KwName     == <<"n","a","m","e">>

IsHeaderLine(line) ==
    Contains(Lower(line), KwUniqueId) /\ Contains(Lower(line), KwName)

\* the header_idx loop over lines[:10]
HeaderIdx(lines) ==
    LET window == 1..(IF Len(lines) < HeaderWindow THEN Len(lines) ELSE HeaderWindow)
    IN  IF \E i \in window : IsHeaderLine(lines[i])
        THEN (CHOOSE i \in window :
                 IsHeaderLine(lines[i]) /\ \A j \in window : IsHeaderLine(lines[j]) => i <= j) - 1
        ELSE 0

KeyId == <<"i","d">>
KeyCode == <<"c","o","d","e">>
KeyLabel == <<"l","a","b","e","l">>
KeyPath == <<"p","a","t","h">>
KeyScd == <<"s","c","d">>
KeyIsScd == <<"i","s","_","s","c","d">>
KeySensitive == <<"s","e","n","s","i","t","i","v","e">>
KeyChildren == <<"c","h","i","l","d","r","e","n">>
KeyNodes == <<"n","o","d","e","s">>

\* the rows appended by walk(node, ancestors), in the order of the appends;
\* a row is the sequence of its id, label, path and scd cells
RECURSIVE walk(_, _)
RECURSIVE WalkChildren(_, _)
walk(node, ancestors) ==
    LET nid      == PyOr(DictGet(node.o, KeyId), DictGet(node.o, KeyCode))
        label    == PyOr(DictGet(node.o, KeyLabel), DictGet(node.o, KwName))
        scd      == PyOr(PyOr(DictGet(node.o, KeyScd), DictGet(node.o, KeyIsScd)),
                         DictGet(node.o, KeySensitive))
        children == PyOr(PyOr(DictGet(node.o, KeyChildren), DictGet(node.o, KeyNodes)),
                         VArr(<<>>))
        own      == IF Truthy(nid) /\ Truthy(label)
                    THEN << <<nid, label, VArr(Append(ancestors, label)), scd>> >>
                    ELSE <<>>
        below    == IF Truthy(label) THEN Append(ancestors, label) ELSE ancestors
    IN  own \o (IF children.t = "arr" THEN WalkChildren(children.a, below) ELSE <<>>)

\* WalkChildren with one ancestors list shared by the siblings: the label
\* of a child stays on the list for the children after it
RECURSIVE WalkChildren_shared(_, _)
WalkChildren_shared(cs, ancestors) ==
    IF cs = <<>> THEN <<>>
    ELSE LET c     == Head(cs)
             label == IF c.t = "obj"
                      THEN PyOr(DictGet(c.o, KeyLabel), DictGet(c.o, KwName)) ELSE VNone
         IN  (IF c.t = "obj" THEN walk(c, ancestors) ELSE <<>>)
             \o WalkChildren_shared(Tail(cs),
                                    IF Truthy(label) THEN Append(ancestors, label)
                                    ELSE ancestors)

WalkChildren(cs, ancestors) ==
    IF cs = <<>> THEN <<>>
    ELSE (IF Head(cs).t = "obj" THEN walk(Head(cs), ancestors) ELSE <<>>)
         \o WalkChildren(Tail(cs), ancestors)

TreeColumns == <<KeyId, KeyLabel, KeyPath, KeyScd>>

\* pd.DataFrame(rows) for the rows of walk: no rows, no columns
TreeFrame(rows) == IF rows = <<>> THEN EmptyDataFrame ELSE DataFrame(TreeColumns, rows)

\* the keys of a list of dicts in the order of their first appearance
RECURSIVE KeysOf(_, _)
KeysOf(pairs, acc) ==
    IF pairs = <<>> THEN acc
    ELSE KeysOf(Tail(pairs),
                IF \E i \in 1..Len(acc) : acc[i] = Head(pairs).k
                THEN acc ELSE Append(acc, Head(pairs).k))

HasKey(o, key) == \E i \in 1..Len(o) : o[i].k = key

\* pd.DataFrame(data) for a list of dicts: a missing key is NaN
FlatFrame(data) ==
    LET columns == KeysOf(Flatten([i \in 1..Len(data) |-> data[i].o]), <<>>)
    IN  DataFrame(columns,
                  [i \in 1..Len(data) |->
                      [c \in 1..Len(columns) |->
                          IF HasKey(data[i].o, columns[c])
                          THEN DictGet(data[i].o, columns[c]) ELSE VNaN]])

ExtTsv == <<".","t","s","v">>
ExtCsv == <<".","c","s","v">>

\* json.dumps(v) without spaces: the text of a JSON document
RECURSIVE Dumps(_)
RECURSIVE DumpsItems(_)
RECURSIVE DumpsPairs(_)
Dumps(v) ==
    CASE v.t = "str"  -> <<"\"">> \o v.s \o <<"\"">>
      [] v.t = "null" -> <<"n","u","l","l">>
      [] v.t = "bool" -> IF v.b THEN <<"t","r","u","e">> ELSE <<"f","a","l","s","e">>
      [] v.t = "num"  -> DecimalOf(v.n)
      [] v.t = "arr"  -> <<"[">> \o DumpsItems(v.a) \o <<"]">>
      [] v.t = "obj"  -> <<"{">> \o DumpsPairs(v.o) \o <<"}">>

DumpsItems(a) ==
    IF a = <<>> THEN <<>>
    ELSE Dumps(Head(a)) \o (IF Len(a) > 1 THEN <<",">> ELSE <<>>) \o DumpsItems(Tail(a))

DumpsPairs(o) ==
    IF o = <<>> THEN <<>>
    ELSE <<"\"">> \o Head(o).k \o <<"\"", ":">> \o Dumps(Head(o).v)
         \o (IF Len(o) > 1 THEN <<",">> ELSE <<>>) \o DumpsPairs(Tail(o))

Pair(k, v) == [k |-> k, v |-> v]

ValA == <<"a">>
ValB == <<"b">>
ValC == <<"c">>
ValD == <<"d">>

JsonFlat == VArr(<< VObj(<<Pair(KeyId, VStr(ValA)), Pair(KeyLabel, VStr(ValB))>>) >>)

JsonTree ==
    VObj(<<Pair(KeyId, VStr(ValA)), Pair(KeyLabel, VStr(ValB)),
           Pair(KeyChildren,
                VArr(<< VObj(<<Pair(KeyId, VStr(ValC)), Pair(KwName, VStr(ValD))>>) >>))>>)

\* the JSON documents of the model
JsonValues == {JsonFlat, JsonTree, VArr(<<>>), VNum(7)}

\* json.loads(text): a text that is the dump of a document parses to that
\* document; no other text of the model is JSON
JsonLoads(text) ==
    IF \E v \in JsonValues : Dumps(v) = text
    THEN Ok(CHOOSE v \in JsonValues : Dumps(v) = text)
    ELSE Err("JSONDecodeError")

parse_table(text, name) ==
    LET lower      == Lower(name)
        header_idx == HeaderIdx(SplitLines(text))
        loaded     == JsonLoads(text)
    IN  IF EndsWith(lower, ExtTsv) THEN read_csv(text, "\t", header_idx)
        ELSE IF EndsWith(lower, ExtCsv) THEN read_csv(text, ",", header_idx)
        ELSE IF ~loaded.ok THEN Err("ValueError")
        ELSE LET data == loaded.val
             IN  IF data.t = "arr" /\ data.a # <<>> /\ data.a[1].t = "obj"
                 THEN Ok(FlatFrame(data.a))
                 ELSE IF data.t = "obj" THEN Ok(TreeFrame(walk(data, <<>>)))
                 ELSE IF data.t = "arr" THEN Ok(TreeFrame(WalkChildren(data.a, <<>>)))
                 ELSE Ok(EmptyDataFrame)

(***************************************************************************)
(* Schema normalizers: normalize_2x and normalize_3x                       *)
(***************************************************************************)
AliasNodeId     == <<"n","o","d","e"," ","i","d">>
AliasTaxonomyId == <<"t","a","x","o","n","o","m","y"," ","i","d">>
AliasNode       == <<"n","o","d","e">>
AliasNodeName   == <<"n","o","d","e"," ","n","a","m","e">>
AliasFullPath   == <<"f","u","l","l"," ","p","a","t","h">>
AliasTaxonomyPath == <<"t","a","x","o","n","o","m","y"," ","p","a","t","h">>
AliasIsScd      == <<"i","s"," ","s","c","d">>
PrefixTier      == <<"t","i","e","r">>

IdAliases2x   == {KeyCode, KeyId, AliasNodeId, AliasTaxonomyId, KwUniqueId}
IdAliases3x   == {KeyId, AliasNodeId, AliasTaxonomyId, KwUniqueId}
LabelAliases  == {KeyLabel, KwName, AliasNode, AliasNodeName}
PathAliases   == {KeyPath, AliasFullPath, AliasTaxonomyPath}
ScdAliases    == {KeyScd, KeySensitive, AliasIsScd}

\* the keys of cols = {c.lower(): c for c in df.columns}, in dict order:
\* a key keeps the place of its first insertion
RECURSIVE ColsKeys(_, _)
ColsKeys(columns, acc) ==
    IF columns = <<>> THEN acc
    ELSE ColsKeys(Tail(columns),
                  IF \E i \in 1..Len(acc) : acc[i] = Lower(Head(columns))
                  THEN acc ELSE Append(acc, Lower(Head(columns))))

\* cols[k]: a later column of the same lower-cased form overwrites the value
ColsValue(columns, k) ==
    columns[CHOOSE i \in 1..Len(columns) :
               /\ Lower(columns[i]) = k
               /\ \A j \in 1..Len(columns) : Lower(columns[j]) = k => j <= i]

\* next((cols[k] for k in cols if k in aliases), None)
InferCol(columns, aliases) ==
    LET keys == ColsKeys(columns, <<>>)
    IN  IF \E i \in 1..Len(keys) : keys[i] \in aliases
        THEN Some(ColsValue(columns,
                            keys[CHOOSE i \in 1..Len(keys) :
                                    /\ keys[i] \in aliases
                                    /\ \A j \in 1..Len(keys) : keys[j] \in aliases => i <= j]))
        ELSE None

\* "not col": no column was found, or the column found has the empty label
NotCol(col) == col = None \/ col[1] = <<>>

\* the row loop of normalize_2x
RECURSIVE Rows2x(_, _, _, _)
Rows2x(df, rows, id_col, label_col) ==
    IF rows = <<>> THEN <<>>
    ELSE LET code  == StrOrEmptyStripped(RowGet(df, Head(rows), id_col))
             label == StrOrEmptyStripped(RowGet(df, Head(rows), label_col))
         IN  (IF code = <<>> \/ label = <<>> THEN <<>>
              ELSE <<[code |-> code, label |-> label]>>)
             \o Rows2x(df, Tail(rows), id_col, label_col)

normalize_2x(df) ==
    LET id_col    == InferCol(df.columns, IdAliases2x)
        label_col == InferCol(df.columns, LabelAliases)
    IN  IF NotCol(id_col) \/ NotCol(label_col) THEN Err("ValueError")
        ELSE Ok(Rows2x(df, df.rows, id_col[1], label_col[1]))

\* to_bool without strip() and lower()
to_bool_exact(val) ==
    IF val.t = "bool" THEN val.b
    ELSE IF val.t = "null" THEN FALSE
    ELSE PyStr(val) \in {<<"t","r","u","e">>, <<"1">>, <<"y","e","s">>, <<"y">>}

\* to_bool(val)
to_bool(val) ==
    IF val.t = "bool" THEN val.b
    ELSE IF val.t = "null" THEN FALSE
    ELSE Lower(Strip(PyStr(val))) \in
            {<<"t","r","u","e">>, <<"1">>, <<"y","e","s">>, <<"y">>}

\* tier_cols: one entry per column whose lower-cased label starts with
\* "tier", each mapped through cols
TierCols(columns) ==
    LET idx == {i \in 1..Len(columns) : StartsWith(Lower(columns[i]), PrefixTier)}
        RECURSIVE Build(_)
        Build(i) == IF i > Len(columns) THEN <<>>
                    ELSE (IF i \in idx THEN <<ColsValue(columns, Lower(columns[i]))>> ELSE <<>>)
                         \o Build(i + 1)
    IN  Build(1)

PathDelims == {">", "/", "\\", ","}

\* [p.strip() for p in parts if p.strip()]
RECURSIVE StripNonEmpty(_)
StripNonEmpty(parts) ==
    IF parts = <<>> THEN <<>>
    ELSE (IF Strip(Head(parts)) = <<>> THEN <<>> ELSE <<Strip(Head(parts))>>)
         \o StripNonEmpty(Tail(parts))

\* the tier loop of row_path
RECURSIVE TierParts(_, _, _)
TierParts(df, row, tier_cols) ==
    IF tier_cols = <<>> THEN <<>>
    ELSE LET val == StrOrEmptyStripped(RowGet(df, row, Head(tier_cols)))
         IN  (IF val = <<>> THEN <<>> ELSE <<val>>)
             \o TierParts(df, row, Tail(tier_cols))

row_path(df, row, path_col, tier_cols) ==
    LET raw   == IF NotCol(path_col) THEN VNone ELSE RowGet(df, row, path_col[1])
        parts == IF raw.t = "str" /\ Strip(raw.s) # <<>>
                 THEN StripNonEmpty(Split(raw.s, PathDelims)) ELSE <<>>
    IN  IF parts # <<>> THEN parts ELSE TierParts(df, row, tier_cols)

\* the row loop of normalize_3x
RECURSIVE Rows3x(_, _, _, _, _, _)
Rows3x(df, rows, id_col, label_col, path_col, scd_col) ==
    IF rows = <<>> THEN <<>>
    ELSE LET row   == Head(rows)
             id_   == StrOrEmptyStripped(RowGet(df, row, id_col))
             label == StrOrEmptyStripped(RowGet(df, row, label_col))
             rp    == row_path(df, row, path_col, TierCols(df.columns))
             path  == IF rp # <<>> THEN rp ELSE <<label>>
             scd   == IF NotCol(scd_col) THEN FALSE
                      ELSE to_bool(RowGet(df, row, scd_col[1]))
         IN  (IF id_ = <<>> \/ label = <<>> THEN <<>>
              ELSE <<[id |-> id_, label |-> label, path |-> path, scd |-> scd]>>)
             \o Rows3x(df, Tail(rows), id_col, label_col, path_col, scd_col)

normalize_3x(df) ==
    LET id_col    == InferCol(df.columns, IdAliases3x)
        label_col == InferCol(df.columns, LabelAliases)
        path_col  == InferCol(df.columns, PathAliases)
        scd_col   == InferCol(df.columns, ScdAliases)
    IN  IF NotCol(id_col) \/ NotCol(label_col) THEN Err("ValueError")
        ELSE Ok(Rows3x(df, df.rows, id_col[1], label_col[1], path_col, scd_col))

(***************************************************************************)
(* File names of the listing                                               *)
(***************************************************************************)
N30 == <<"C", "o", "n", "t", "e", "n", "t", " ", "T", "a", "x", "o", "n", "o", "m", "y", " ", "3", ".", "0", ".", "t", "s", "v">>
N31 == <<"C", "o", "n", "t", "e", "n", "t", " ", "T", "a", "x", "o", "n", "o", "m", "y", " ", "3", ".", "1", ".", "t", "s", "v">>
N31b == <<"c", "o", "n", "t", "e", "n", "t", " ", " ", "t", "a", "x", "o", "n", "o", "m", "y", "3", ".", "1", ".", "C", "S", "V">>
N22 == <<"C", "o", "n", "t", "e", "n", "t", " ", "T", "a", "x", "o", "n", "o", "m", "y", " ", "2", ".", "2", ".", "t", "s", "v">>
N210 == <<"C", "o", "n", "t", "e", "n", "t", " ", "T", "a", "x", "o", "n", "o", "m", "y", " ", "2", ".", "1", "0", ".", "j", "s", "o", "n">>
NReadme == <<"r", "e", "a", "d", "m", "e", ".", "m", "d">>
NNoVer == <<"C", "o", "n", "t", "e", "n", "t", " ", "T", "a", "x", "o", "n", "o", "m", "y", " ", "3", ".", "x">>

Names == {N30, N31, N31b, N22, N210, NReadme, NNoVer}
Majors == {2, 3, 5}

\* the listings of at most n files
Listings(n) == SeqsUpTo({FileMeta(name) : name \in Names}, n)

(***************************************************************************)
(* Idle values of the variables a specification does not use               *)
(***************************************************************************)
NoCall == [fn |-> "none"]
Pending == [done |-> FALSE, val |-> <<>>]
Returned(v) == [done |-> TRUE, val |-> v]

MainIdle ==
    /\ pc = "idle" /\ files = <<>> /\ f3 = None /\ f2 = None
    /\ txt3 = None /\ df3 = None /\ norm3 = None
    /\ txt2 = None /\ df2 = None /\ norm2 = None
    /\ raw_dir = {} /\ data_dir = {} /\ exit_code = None /\ log = <<>>

(***************************************************************************)
(* SpecPick: pick_latest applied to every listing and major                *)
(***************************************************************************)
InitPick ==
    /\ MainIdle
    /\ \E fs \in Listings(MaxFiles), m \in Majors :
           call = [fn |-> "pick_latest", files |-> fs, major |-> m]
    /\ ret = Pending

CallPickLatest ==
    /\ call.fn = "pick_latest" /\ ~ret.done
    /\ ret' = Returned(pick_latest(call.files, call.major))
    /\ UNCHANGED <<mainVars, call>>

NextPick == CallPickLatest

SpecPick == InitPick /\ [][NextPick]_vars

PickReturned == call.fn = "pick_latest" /\ ret.done

\* the version extracted from each file of the listing
Versions == [i \in 1..Len(call.files) |-> parse_version_from_name(call.files[i].name)]

\* positions of the files whose name yields a version of the requested major
WithMajor(vers) ==
    {i \in 1..Len(vers) : vers[i] # None /\ vers[i][1][1] = call.major}

\* those of them whose minor is the largest
MaxMinorPositions(vers) ==
    LET wm == WithMajor(vers)
    IN  {i \in wm : \A j \in wm : vers[j][1][2] <= vers[i][1][2]}

\* C5: pick_latest returns a file of the requested major whose minor is the
\* maximum over the files of that major, and returns nothing exactly when
\* no file of the listing has a version of that major.
C5_PickLatestMaxMinor ==
    PickReturned =>
        LET vers == Versions
            best == MaxMinorPositions(vers)
        IN  /\ (ret.val = None) <=> (WithMajor(vers) = {})
            /\ ret.val # None => \E i \in best : call.files[i] = ret.val[1]

\* a listing with a smaller minor of the same major and a file without
\* version, from which the largest minor is taken
C5_Witness ==
    /\ PickReturned /\ ret.val # None
    /\ Len(call.files) = MaxFiles
    /\ LET vers == Versions
           wm   == WithMajor(vers)
           best == MaxMinorPositions(vers)
       IN  /\ \E i \in wm : i \notin best
           /\ \E i \in 1..Len(vers) : vers[i] = None
           /\ \E i \in best : call.files[i] = ret.val[1]

\* C6: among several files of the requested major with the same maximal
\* minor, pick_latest returns the one that comes first in the listing.
C6_PickLatestFirstOfTies ==
    (PickReturned /\ ret.val # None) =>
        LET best == MaxMinorPositions(Versions)
        IN  ret.val[1] = call.files[CHOOSE i \in best : \A j \in best : i <= j]

\* two different files share the maximal minor
C6_Witness ==
    /\ PickReturned /\ ret.val # None
    /\ LET best == MaxMinorPositions(Versions)
       IN  \E i, j \in best :
               i < j /\ call.files[i] # call.files[j] /\ ret.val[1] = call.files[i]

(***************************************************************************)
(* SpecParse: parse_table applied to delimited texts with a preamble, a    *)
(* header row and data rows, to JSON documents and to a text that is       *)
(* neither                                                                 *)
(***************************************************************************)
MaxPreamble == 11
MaxDataRows == 2

NameTsv == <<"a", ".", "t", "s", "v">>
NameCsv == <<"b", ".", "C", "S", "V">>
NameJson == <<"c", ".", "j", "s", "o", "n">>
FJunk == <<"j", "u", "n", "k">>
FX == <<"x">>
FUniqueId == <<"U", "n", "i", "q", "u", "e", " ", "I", "D">>
FName == <<"N", "a", "m", "e">>
FUNIQUEID == <<"U", "N", "I", "Q", "U", "E", " ", "I", "D">>
FNAME == <<"N", "A", "M", "E">>
FCode == <<"C", "o", "d", "e">>
FLabel == <<"L", "a", "b", "e", "l">>

TxtGarbage == <<"g", "a", "r", "b", "a", "g", "e">>

\* the fields of a line joined by the delimiter
RECURSIVE JoinFields(_, _)
JoinFields(fields, sep) ==
    IF fields = <<>> THEN <<>>
    ELSE IF Len(fields) = 1 THEN Head(fields)
    ELSE Head(fields) \o <<sep>> \o JoinFields(Tail(fields), sep)

\* the lines of a text, each ended by a line break
RECURSIVE JoinLines(_)
JoinLines(lines) ==
    IF lines = <<>> THEN <<>> ELSE Head(lines) \o <<"\n">> \o JoinLines(Tail(lines))

HeaderRows == {<<FUniqueId, FName>>, <<FNAME, FUNIQUEID>>, <<FCode, FLabel>>}
DataRows   == {<<ValA, ValB>>, <<<<>>, ValB>>, <<>>}
Separators == {"\t", ","}
ParseNames == {NameTsv, NameCsv, NameJson}

\* p preamble lines, the b-th of them empty (none when b = 0), then the
\* header row and the data rows
TabText(p, b, header, rows, sep) ==
    JoinLines([i \in 1..p |-> IF i = b THEN <<>> ELSE JoinFields(<<FJunk, FX>>, sep)]
              \o <<JoinFields(header, sep)>>
              \o [i \in 1..Len(rows) |-> JoinFields(rows[i], sep)])

\* the delimited texts of at most np preamble lines and nr data rows
TabTexts(np, nr) ==
    {TabText(p, b, h, rows, sep) :
        p \in 0..np, b \in 0..np, h \in HeaderRows,
        rows \in SeqsUpTo(DataRows, nr), sep \in Separators}

ParseTexts(np, nr) ==
    TabTexts(np, nr) \cup {Dumps(v) : v \in JsonValues} \cup {TxtGarbage, <<>>}

InitParse ==
    /\ MainIdle
    /\ \E text \in ParseTexts(MaxPreamble, MaxDataRows), name \in ParseNames :
           call = [fn |-> "parse_table", text |-> text, name |-> name]
    /\ ret = Pending

CallParseTable ==
    /\ call.fn = "parse_table" /\ ~ret.done
    /\ ret' = Returned(parse_table(call.text, call.name))
    /\ UNCHANGED <<mainVars, call>>

NextParse == CallParseTable

SpecParse == InitParse /\ [][NextParse]_vars

ParseReturned == call.fn = "parse_table" /\ ret.done

\* the delimiter the file name stands for, None for a name that is neither
\* .tsv nor .csv
DelimiterOf(name) ==
    IF EndsWith(Lower(name), ExtTsv) THEN Some("\t")
    ELSE IF EndsWith(Lower(name), ExtCsv) THEN Some(",")
    ELSE None

\* 0-based positions, among the first ten lines, of the lines that hold
\* both "unique id" and "name"
QualifyingLines(lines) ==
    {i \in 0..9 : i < Len(lines) /\ IsHeaderLine(lines[i + 1])}

\* the header the text is to be read with: the first qualifying line, or
\* line 0
ExpectedHeader(lines) ==
    IF QualifyingLines(lines) = {} THEN 0
    ELSE CHOOSE i \in QualifyingLines(lines) : \A j \in QualifyingLines(lines) : i <= j

\* C7: for a .tsv or .csv text the header is the first of lines 0..9 that
\* holds, case-insensitively, both "unique id" and "name", or line 0 when
\* none does; the lines before it are discarded and the lines after it
\* (empty lines aside) are the data rows, keyed by the header's tokens.
\* Nothing is required of a text whose header line would be empty.
C7_HeaderIsFirstQualifyingLine ==
    (/\ ParseReturned /\ DelimiterOf(call.name) # None
     /\ SplitLines(call.text) # <<>>
     /\ SplitLines(call.text)[ExpectedHeader(SplitLines(call.text)) + 1] # <<>>) =>
        LET lines == SplitLines(call.text)
            sep   == DelimiterOf(call.name)[1]
            h     == ExpectedHeader(lines)
            after == NonBlank(SubSeq(lines, h + 2, Len(lines)), sep)
            names == HeaderLabels(Split(lines[h + 1], {sep}))
        IN  /\ ret.val.ok
            /\ ret.val.val.columns = names
            /\ ret.val.val.rows =
                   [i \in 1..Len(after) |-> RowOf(Split(after[i], {sep}), Len(names))]

(***************************************************************************)
(* SpecNorm2x: normalize_2x applied to tables of up to MaxCols2x columns   *)
(* and MaxRows2x rows.  The cells are strings (padded, whitespace-only),   *)
(* and NaN, the cell read_csv makes of an empty field.                     *)
(***************************************************************************)
MaxCols2x == 3
MaxRows2x == 2

FCODE == <<"C", "O", "D", "E">>
FPath == <<"P", "a", "t", "h">>
FTier1 == <<"T", "i", "e", "r", " ", "1">>
FTIER2 == <<"T", "I", "E", "R", " ", "2">>
FSCD == <<"S", "C", "D">>
CellBPadded == <<" ", "b", " ">>
CellBlank == <<" ">>
CellPath == <<"A", " ", ">", " ", "B", "/", "C">>
CellPathEmpty == <<" ", "/", " ", ",">>
CellT == <<"T">>
CellUPadded == <<" ", "U", " ">>
CellLabel == <<" ", "L", " ">>
CellYes == <<"Y", "e", "s">>
CellNo == <<"n", "o">>

Headers2x == {FCode, FCODE, FLabel, FX}
Cells2x   == {VStr(ValA), VStr(CellBPadded), VStr(CellBlank), VNaN}

\* column labels of a DataFrame are distinct
Distinct(seq) == \A i, j \in 1..Len(seq) : seq[i] = seq[j] => i = j

Columns2x(nc) == {cs \in SeqsUpTo(Headers2x, nc) : Distinct(cs)}

\* the rows of a table of n columns; a third and later column holds "c"
RowsOfWidth2x(n) ==
    {r \in [1..n -> Cells2x \cup {VStr(ValC)}] :
        \A i \in 1..n : (i > 2) <=> (r[i] = VStr(ValC))}

\* the tables of at most nc columns and nr rows
Tables2x(nc, nr) ==
    UNION {{DataFrame(cs, rows) : rows \in SeqsUpTo(RowsOfWidth2x(Len(cs)), nr)} :
              cs \in Columns2x(nc)}

InitNorm2x ==
    /\ MainIdle
    /\ \E df \in Tables2x(MaxCols2x, MaxRows2x) : call = [fn |-> "normalize_2x", df |-> df]
    /\ ret = Pending

CallNormalize2x ==
    /\ call.fn = "normalize_2x" /\ ~ret.done
    /\ ret' = Returned(normalize_2x(call.df))
    /\ UNCHANGED <<mainVars, call>>

NextNorm2x == CallNormalize2x

SpecNorm2x == InitNorm2x /\ [][NextNorm2x]_vars

Norm2xReturned == call.fn = "normalize_2x" /\ ret.done

\* the text of a cell: an empty cell (NaN, None) has none
CellText(v) == IF v.t = "str" THEN v.s ELSE <<>>

\* the rows whose id and label text are both non-empty after trimming, in
\* row order, as {code, label} of the trimmed texts
RECURSIVE NonEmptyRows2x(_, _, _, _)
NonEmptyRows2x(df, rows, id_col, label_col) ==
    IF rows = <<>> THEN <<>>
    ELSE LET code  == Strip(CellText(RowGet(df, Head(rows), id_col)))
             label == Strip(CellText(RowGet(df, Head(rows), label_col)))
         IN  (IF code = <<>> \/ label = <<>> THEN <<>>
              ELSE <<[code |-> code, label |-> label]>>)
             \o NonEmptyRows2x(df, Tail(rows), id_col, label_col)

\* C8: the output of normalize_2x is exactly the subsequence, in row order,
\* of the rows whose id and label are both non-empty after trimming, each as
\* {code, label} of the trimmed values; a row with an empty or whitespace-only
\* id or label cell (an empty cell of a parsed file included) yields no entry.
C8_OutputIsNonEmptyRows ==
    (Norm2xReturned /\ ret.val.ok) =>
        ret.val.val = NonEmptyRows2x(call.df, call.df.rows,
                                     InferCol(call.df.columns, IdAliases2x)[1],
                                     InferCol(call.df.columns, LabelAliases)[1])

\* the first header, in column order, whose lower-cased form is an alias
FirstHeader(columns, aliases) ==
    IF \E i \in 1..Len(columns) : Lower(columns[i]) \in aliases
    THEN Some(columns[CHOOSE i \in 1..Len(columns) :
                         /\ Lower(columns[i]) \in aliases
                         /\ \A j \in 1..Len(columns) : Lower(columns[j]) \in aliases => i <= j])
    ELSE None

\* C9: normalize_2x takes as id-column the first header whose lower-cased
\* form is an id alias and as label-column the first header whose
\* lower-cased form is a label alias, also when two headers differ only in
\* letter case, and fails exactly when one of the two has no such header.
C9_FirstQualifyingHeader ==
    Norm2xReturned =>
        LET id_col    == FirstHeader(call.df.columns, IdAliases2x)
            label_col == FirstHeader(call.df.columns, LabelAliases)
        IN  /\ ret.val.ok <=> (id_col # None /\ label_col # None)
            /\ ret.val.ok =>
                   ret.val.val = Rows2x(call.df, call.df.rows, id_col[1], label_col[1])

(***************************************************************************)
(* SpecNorm3x: normalize_3x applied to tables over the columns Unique ID,  *)
(* Name, Path, Tier 1, TIER 2 and SCD                                      *)
(***************************************************************************)
MaxRows3x == 1

Base3x == <<FUniqueId, FName, FPath, FTier1, FTIER2, FSCD>>

Cells3x(label) ==
    CASE label = FUniqueId -> {VStr(ValA)}
      [] label = FName     -> {VStr(CellLabel), VStr(CellBlank)}
      [] label = FPath     -> {VStr(CellPath), VStr(CellPathEmpty), VNaN}
      [] label = FTier1    -> {VStr(CellT), VNaN}
      [] label = FTIER2    -> {VStr(CellUPadded), VNaN}
      [] label = FSCD      -> {VStr(CellYes), VStr(CellNo), VNaN}

\* the sub-sequence of seq at the positions of keep
RECURSIVE SubSequence(_, _, _)
SubSequence(seq, keep, i) ==
    IF i > Len(seq) THEN <<>>
    ELSE (IF i \in keep THEN <<seq[i]>> ELSE <<>>) \o SubSequence(seq, keep, i + 1)

Columns3x == {SubSequence(Base3x, keep, 1) : keep \in SUBSET (1..Len(Base3x))}

\* the rows over the columns cs: a cell of its column's kind in each place
RECURSIVE RowsOver3x(_)
RowsOver3x(cs) ==
    IF cs = <<>> THEN {<<>>}
    ELSE {<<c>> \o r : c \in Cells3x(Head(cs)), r \in RowsOver3x(Tail(cs))}

\* the tables of at most nr rows
Tables3x(nr) ==
    UNION {{DataFrame(cs, rows) : rows \in SeqsUpTo(RowsOver3x(cs), nr)} :
              cs \in Columns3x}

InitNorm3x ==
    /\ MainIdle
    /\ \E df \in Tables3x(MaxRows3x) : call = [fn |-> "normalize_3x", df |-> df]
    /\ ret = Pending

CallNormalize3x ==
    /\ call.fn = "normalize_3x" /\ ~ret.done
    /\ ret' = Returned(normalize_3x(call.df))
    /\ UNCHANGED <<mainVars, call>>

NextNorm3x == CallNormalize3x

SpecNorm3x == InitNorm3x /\ [][NextNorm3x]_vars

Norm3xReturned == call.fn = "normalize_3x" /\ ret.done

\* the columns whose lower-cased label starts with "tier", in column order
TierHeaders(columns) ==
    SubSequence(columns,
                {i \in 1..Len(columns) : StartsWith(Lower(columns[i]), PrefixTier)}, 1)

\* the non-empty trimmed texts of the tier cells of a row, in column order
RECURSIVE TierTexts(_, _, _)
TierTexts(df, row, tiers) ==
    IF tiers = <<>> THEN <<>>
    ELSE LET val == Strip(CellText(RowGet(df, row, Head(tiers))))
         IN  (IF val = <<>> THEN <<>> ELSE <<val>>) \o TierTexts(df, row, Tail(tiers))

\* the path of a row by strict priority: the split path cell, else the tier
\* texts, else the label alone
PathByPriority(df, row, label) ==
    LET path_col == FirstHeader(df.columns, PathAliases)
        split    == IF path_col = None THEN <<>>
                    ELSE StripNonEmpty(Split(CellText(RowGet(df, row, path_col[1])), PathDelims))
        tiers    == TierTexts(df, row, TierHeaders(df.columns))
    IN  IF split # <<>> THEN split ELSE IF tiers # <<>> THEN tiers ELSE <<label>>

\* the rows of the table that are emitted (id and label non-empty), in order
RECURSIVE EmittedRows3x(_, _)
EmittedRows3x(df, rows) ==
    IF rows = <<>> THEN <<>>
    ELSE LET id_   == StrOrEmptyStripped(RowGet(df, Head(rows), InferCol(df.columns, IdAliases3x)[1]))
             label == StrOrEmptyStripped(RowGet(df, Head(rows), InferCol(df.columns, LabelAliases)[1]))
         IN  (IF id_ = <<>> \/ label = <<>> THEN <<>> ELSE <<Head(rows)>>)
             \o EmittedRows3x(df, Tail(rows))

\* C10: the path of every emitted row is, by strict priority, the path cell
\* split on > / \ , with the segments trimmed and the empty ones dropped, if
\* that is non-empty; otherwise the non-empty trimmed tier values in column
\* order; otherwise [label]; so every path is a non-empty sequence of
\* non-empty strings.
C10_PathByStrictPriority ==
    (Norm3xReturned /\ ret.val.ok) =>
        LET out     == ret.val.val
            emitted == EmittedRows3x(call.df, call.df.rows)
        IN  /\ Len(out) = Len(emitted)
            /\ \A i \in 1..Len(out) :
                   /\ out[i].path = PathByPriority(call.df, emitted[i], out[i].label)
                   /\ out[i].path # <<>>
                   /\ \A k \in 1..Len(out[i].path) : out[i].path[k] # <<>>

(***************************************************************************)
(* SpecScd: normalize_3x applied to tables over Unique ID, Name and,       *)
(* optionally, SCD, whose SCD cells are strings, booleans, numbers, None   *)
(* and NaN                                                                 *)
(***************************************************************************)
MaxRowsScd == 2

CellTruePadded == <<" ", "T", "R", "U", "E", " ">>
CellOne == <<"1">>
CellY == <<"y">>
CellZero == <<"0">>

ScdCells == {VStr(CellTruePadded), VStr(CellOne), VStr(CellYes), VStr(CellY),
             VStr(<<>>), VStr(CellNo), VStr(CellZero), VNaN, VNone,
             VBool(TRUE), VBool(FALSE), VNum(1)}

ScdRows(withScd) ==
    {<<VStr(ValA), label>> \o (IF withScd THEN <<scd>> ELSE <<>>) :
        label \in {VStr(CellLabel), VStr(CellBlank)}, scd \in ScdCells}

\* the tables of at most nr rows, with and without the SCD column
ScdTables(nr) ==
    {DataFrame(<<FUniqueId, FName, FSCD>>, rows) : rows \in SeqsUpTo(ScdRows(TRUE), nr)}
    \cup {DataFrame(<<FUniqueId, FName>>, rows) : rows \in SeqsUpTo(ScdRows(FALSE), nr)}

InitScd ==
    /\ MainIdle
    /\ \E df \in ScdTables(MaxRowsScd) : call = [fn |-> "normalize_3x", df |-> df]
    /\ ret = Pending

SpecScd == InitScd /\ [][NextNorm3x]_vars

\* the words that stand for true
TrueWords == {<<"t","r","u","e">>, <<"1">>, <<"y","e","s">>, <<"y">>}

\* the text of an SCD cell; an empty or missing cell has none
ScdText(v) ==
    CASE v.t = "str"  -> v.s
      [] v.t = "bool" -> IF v.b THEN <<"t","r","u","e">> ELSE <<"f","a","l","s","e">>
      [] v.t = "num"  -> DecimalOf(v.n)
      [] OTHER        -> <<>>

HasScdColumn(df) == \E i \in 1..Len(df.columns) : Lower(df.columns[i]) \in ScdAliases

ScdCellOf(df, row) ==
    row[CHOOSE i \in 1..Len(df.columns) : Lower(df.columns[i]) \in ScdAliases]

\* C11: scd of an emitted row is true exactly when the table has an
\* scd-column and the row's value in it is, trimmed and case-insensitively,
\* one of true, 1, yes, y; it is false for every other value, empty and
\* missing included, and for every row of a table without scd-column.
C11_ScdCoercion ==
    (Norm3xReturned /\ ret.val.ok) =>
        LET out     == ret.val.val
            emitted == EmittedRows3x(call.df, call.df.rows)
        IN  /\ Len(out) = Len(emitted)
            /\ \A i \in 1..Len(out) :
                   out[i].scd <=>
                       /\ HasScdColumn(call.df)
                       /\ Lower(Strip(ScdText(ScdCellOf(call.df, emitted[i])))) \in TrueWords

\* a padded upper-case TRUE is coerced to true, an empty cell to false
C11_Witness ==
    /\ Norm3xReturned /\ ret.val.ok /\ HasScdColumn(call.df)
    /\ Len(ret.val.val) = 2 /\ Len(call.df.rows) = 2
    /\ call.df.rows[1][3] = VStr(CellTruePadded) /\ ret.val.val[1].scd
    /\ call.df.rows[2][3] = VNaN /\ ~ret.val.val[2].scd

(***************************************************************************)
(* SpecWalk: the tree flattening of parse_table applied to every JSON tree *)
(* of at most MaxNodes nodes.  A node has or lacks an id and a label; the  *)
(* label of a node spells its position, so no two nodes share a label.     *)
(* Nodes of even depth use the keys id, label and children, nodes of odd   *)
(* depth the aliases code, name and nodes.                                 *)
(***************************************************************************)
MaxNodes == 4

MkNode(hasId, hasLabel, lab, depth, kids) ==
    VObj((IF hasId
          THEN <<Pair(IF depth % 2 = 0 THEN KeyId ELSE KeyCode, VStr(<<"#">> \o lab))>>
          ELSE <<>>)
         \o (IF hasLabel
             THEN <<Pair(IF depth % 2 = 0 THEN KeyLabel ELSE KwName, VStr(lab))>>
             ELSE <<>>)
         \o (IF kids # <<>>
             THEN <<Pair(IF depth % 2 = 0 THEN KeyChildren ELSE KeyNodes, VArr(kids))>>
             ELSE <<>>))

\* the trees of exactly n nodes whose root is labelled lab, and the forests
\* of exactly m nodes whose first tree is the idx-th child of the node lab
RECURSIVE TreesOfSize(_, _, _)
RECURSIVE ForestsOfSize(_, _, _, _)
TreesOfSize(n, lab, depth) ==
    {MkNode(hasId, hasLabel, lab, depth, kids) :
        hasId \in BOOLEAN, hasLabel \in BOOLEAN,
        kids \in ForestsOfSize(n - 1, lab, depth + 1, 1)}

ForestsOfSize(m, lab, depth, idx) ==
    IF m = 0 THEN {<<>>}
    ELSE UNION {{<<t>> \o f : t \in TreesOfSize(k, lab \o DecimalOf(idx), depth),
                              f \in ForestsOfSize(m - k, lab, depth, idx + 1)} :
                   k \in 1..m}

Trees(maxNodes) == UNION {TreesOfSize(n, <<"r">>, 0) : n \in 1..maxNodes}

InitWalk ==
    /\ MainIdle
    /\ \E tree \in Trees(MaxNodes) : call = [fn |-> "walk", node |-> tree]
    /\ ret = Pending

\* rows = []; walk(data, []); return pd.DataFrame(rows)
CallWalk ==
    /\ call.fn = "walk" /\ ~ret.done
    /\ ret' = Returned(TreeFrame(walk(call.node, <<>>)))
    /\ UNCHANGED <<mainVars, call>>

NextWalk == CallWalk

SpecWalk == InitWalk /\ [][NextWalk]_vars

WalkReturned == call.fn = "walk" /\ ret.done

\* the children of a node
KidsOf(node) ==
    IF HasKey(node.o, KeyChildren) THEN DictGet(node.o, KeyChildren).a
    ELSE IF HasKey(node.o, KeyNodes) THEN DictGet(node.o, KeyNodes).a
    ELSE <<>>

NodeHasId(node)    == HasKey(node.o, KeyId) \/ HasKey(node.o, KeyCode)
NodeHasLabel(node) == HasKey(node.o, KeyLabel) \/ HasKey(node.o, KwName)

NodeId(node) ==
    IF HasKey(node.o, KeyId) THEN DictGet(node.o, KeyId) ELSE DictGet(node.o, KeyCode)

NodeLabel(node) ==
    IF HasKey(node.o, KeyLabel) THEN DictGet(node.o, KeyLabel) ELSE DictGet(node.o, KwName)

\* the node at a position, a sequence of child indices from the root
RECURSIVE NodeAt(_, _)
NodeAt(root, pos) ==
    IF pos = <<>> THEN root ELSE NodeAt(KidsOf(root)[Head(pos)], Tail(pos))

\* the positions of the tree below and including pos, in pre-order
RECURSIVE PreorderFrom(_, _)
RECURSIVE PreorderKids(_, _, _)
PreorderFrom(root, pos) == <<pos>> \o PreorderKids(root, pos, 1)

PreorderKids(root, pos, i) ==
    IF i > Len(KidsOf(NodeAt(root, pos))) THEN <<>>
    ELSE PreorderFrom(root, Append(pos, i)) \o PreorderKids(root, pos, i + 1)

\* the positions whose node has both an id and a label, in pre-order
RECURSIVE WithIdAndLabel(_, _)
WithIdAndLabel(root, positions) ==
    IF positions = <<>> THEN <<>>
    ELSE (IF NodeHasId(NodeAt(root, Head(positions)))
             /\ NodeHasLabel(NodeAt(root, Head(positions)))
          THEN <<Head(positions)>> ELSE <<>>)
         \o WithIdAndLabel(root, Tail(positions))

\* the labels of the labelled nodes on the way from the root to pos, the
\* node at pos included
RECURSIVE LabelsDownTo(_, _, _)
LabelsDownTo(root, pos, k) ==
    IF k > Len(pos) THEN <<>>
    ELSE (IF NodeHasLabel(NodeAt(root, SubSeq(pos, 1, k)))
          THEN <<NodeLabel(NodeAt(root, SubSeq(pos, 1, k)))>> ELSE <<>>)
         \o LabelsDownTo(root, pos, k + 1)

\* q is a sibling of p or below a sibling of p
InSiblingSubtree(p, q) ==
    /\ p # <<>> /\ Len(q) >= Len(p)
    /\ SubSeq(q, 1, Len(p) - 1) = SubSeq(p, 1, Len(p) - 1)
    /\ q[Len(p)] # p[Len(p)]

\* C12: the flattened rows are exactly the nodes that have both an id and a
\* label, in pre-order; the path of a row is the labels of its labelled
\* ancestors from the root down followed by its own label; a node without
\* id or label emits no row while its children are still visited, with the
\* ancestor path unchanged when the label is missing; no path holds the
\* label of a sibling or of a sibling's descendant.
C12_TreeFlattening ==
    WalkReturned =>
        LET root == call.node
            all  == PreorderFrom(root, <<>>)
            pre  == WithIdAndLabel(root, all)
            rows == ret.val.rows
        IN  /\ Len(rows) = Len(pre)
            /\ \A i \in 1..Len(rows) :
                   /\ rows[i][1] = NodeId(NodeAt(root, pre[i]))
                   /\ rows[i][2] = NodeLabel(NodeAt(root, pre[i]))
                   /\ rows[i][3] = VArr(LabelsDownTo(root, pre[i], 0))
                   /\ \A k \in 1..Len(all) :
                          (InSiblingSubtree(pre[i], all[k]) /\ NodeHasLabel(NodeAt(root, all[k])))
                              => NodeLabel(NodeAt(root, all[k])) \notin Range(rows[i][3].a)

\* a second child is flattened after a first child that has a label and a
\* descendant, below a root without label
C12_Witness ==
    /\ WalkReturned
    /\ ~NodeHasLabel(call.node)
    /\ Len(KidsOf(call.node)) = 2
    /\ NodeHasLabel(NodeAt(call.node, <<1>>))
    /\ Len(KidsOf(NodeAt(call.node, <<1>>))) = 1
    /\ \E i \in 1..Len(ret.val.rows) :
           /\ ret.val.rows[i][2] = NodeLabel(NodeAt(call.node, <<2>>))
           /\ ret.val.rows[i][3] = VArr(<<NodeLabel(NodeAt(call.node, <<2>>))>>)
    /\ \E i \in 1..Len(ret.val.rows) :
           /\ ret.val.rows[i][2] = NodeLabel(NodeAt(call.node, <<1, 1>>))
           /\ Len(ret.val.rows[i][3].a) = 2

(***************************************************************************)
(* Pipeline Driver: main                                                   *)
(*                                                                         *)
(* pc is the position in main.  An exception that leaves main ends the     *)
(* process with the traceback and exit status 1 (pc = "raised").  log is   *)
(* the sequence of the effects and failures of the run.                    *)
(***************************************************************************)
MaxMainFiles == 2

N30J == <<"C", "o", "n", "t", "e", "n", "t", " ", "T", "a", "x", "o", "n", "o", "m", "y", " ", "3", ".", "0", ".", "j", "s", "o", "n">>
TxtGood == <<"U", "n", "i", "q", "u", "e", " ", "I", "D", "\t", "N", "a", "m", "e", "\n", "a", "\t", "b", "\n">>
TxtNoCols == <<"f", "o", "o", "\t", "b", "a", "r", "\n", "a", "\t", "b", "\n">>
TxtShifted == <<"j", "u", "n", "k", "\t", "x", "\n", "\n", "U", "n", "i", "q", "u", "e", " ", "I", "D", "\t", "N", "a", "m", "e", "\n", "a", "\t", "b", "\n">>

MainNames == {N31, N30J, N22, N210, NReadme}
MainListings(n) == SeqsUpTo({FileMeta(name) : name \in MainNames}, n)
MainTexts == {TxtGood, TxtNoCols, TxtShifted, TxtGarbage, <<>>,
              Dumps(JsonFlat), Dumps(JsonTree)}

Cat3x == "iab_3x.json"
Cat2x == "iab_2x.json"

Terminal == pc \in {"done", "aborted", "raised"}

InLog(e) == \E i \in 1..Len(log) : log[i] = e

InitMain ==
    /\ pc = "start" /\ files = <<>> /\ f3 = None /\ f2 = None
    /\ txt3 = None /\ df3 = None /\ norm3 = None
    /\ txt2 = None /\ df2 = None /\ norm2 = None
    /\ raw_dir = {} /\ data_dir = {} /\ exit_code = None /\ log = <<>>
    /\ call = NoCall /\ ret = Pending

\* an exception leaves main
Raise(event) ==
    /\ pc' = "raised"
    /\ exit_code' = Some(1)
    /\ log' = Append(log, event)

\* files = list_content_files(): the listing, or an HTTP error
ListFiles ==
    /\ pc = "start"
    /\ \/ /\ \E fs \in MainListings(MaxMainFiles) : files' = fs
          /\ pc' = "pick"
          /\ log' = Append(log, "list")
          /\ UNCHANGED exit_code
       \/ /\ Raise("list_failed")
          /\ UNCHANGED files
    /\ UNCHANGED <<f3, f2, txt3, df3, norm3, txt2, df2, norm2, raw_dir, data_dir, call, ret>>

\* f3, f2 = pick_latest(...); return 1 without a 3.x file
PickFiles ==
    /\ pc = "pick"
    /\ f3' = pick_latest(files, 3)
    /\ f2' = pick_latest(files, 2)
    /\ IF f3' = None
       THEN /\ pc' = "aborted"
            /\ exit_code' = Some(1)
            /\ log' = Append(log, "no_3x")
       ELSE /\ pc' = "dl3"
            /\ log' = IF f2' = None THEN Append(log, "no_2x") ELSE log
            /\ UNCHANGED exit_code
    /\ UNCHANGED <<files, txt3, df3, norm3, txt2, df2, norm2, raw_dir, data_dir, call, ret>>

\* txt3 = download_text(f3.download_url): the text, or a transport error
Download3 ==
    /\ pc = "dl3"
    /\ \/ /\ \E t \in MainTexts : txt3' = Some(t)
          /\ pc' = "raw3"
          /\ log' = Append(log, "dl3")
          /\ UNCHANGED exit_code
       \/ /\ Raise("dl3_failed")
          /\ UNCHANGED txt3
    /\ UNCHANGED <<files, f3, f2, df3, norm3, txt2, df2, norm2, raw_dir, data_dir, call, ret>>

\* the 3.x branch without the write of the raw text
WriteRaw3_skipped ==
    /\ pc = "raw3"
    /\ pc' = "parse3"
    /\ log' = Append(log, "raw3")
    /\ UNCHANGED <<files, f3, f2, txt3, df3, norm3, txt2, df2, norm2, raw_dir, data_dir, exit_code, call, ret>>

\* open(os.path.join(RAW_DIR, f3.name), "w").write(txt3)
WriteRaw3 ==
    /\ pc = "raw3"
    /\ raw_dir' = {r \in raw_dir : r.name # f3[1].name}
                     \cup {[name |-> f3[1].name, text |-> txt3[1]]}
    /\ pc' = "parse3"
    /\ log' = Append(log, "raw3")
    /\ UNCHANGED <<files, f3, f2, txt3, df3, norm3, txt2, df2, norm2, data_dir, exit_code, call, ret>>

\* df3 = parse_table(txt3, f3.name), outside the try
Parse3 ==
    /\ pc = "parse3"
    /\ LET r == parse_table(txt3[1], f3[1].name)
       IN  IF r.ok
           THEN /\ df3' = Some(r.val)
                /\ pc' = "norm3"
                /\ log' = Append(log, "parse3")
                /\ UNCHANGED exit_code
           ELSE /\ Raise("parse3_failed")
                /\ UNCHANGED df3
    /\ UNCHANGED <<files, f3, f2, txt3, norm3, txt2, df2, norm2, raw_dir, data_dir, call, ret>>

AfterBranch3 == IF f2 = None THEN "end" ELSE "dl2"

\* Normalize3 without the try around normalize_3x
Normalize3_uncaught ==
    /\ pc = "norm3"
    /\ LET r == normalize_3x(df3[1])
       IN  IF r.ok
           THEN /\ norm3' = Some(r.val)
                /\ data_dir' = data_dir \cup {Cat3x}
                /\ log' = Append(log, "cat3")
                /\ pc' = AfterBranch3
                /\ UNCHANGED exit_code
           ELSE /\ Raise("norm3_failed")
                /\ UNCHANGED <<norm3, data_dir>>
    /\ UNCHANGED <<files, f3, f2, txt3, df3, txt2, df2, norm2, raw_dir, call, ret>>

\* try: norm3 = normalize_3x(df3); save_json(...)  except Exception: print
Normalize3 ==
    /\ pc = "norm3"
    /\ LET r == normalize_3x(df3[1])
       IN  IF r.ok
           THEN /\ norm3' = Some(r.val)
                /\ data_dir' = data_dir \cup {Cat3x}
                /\ log' = Append(log, "cat3")
           ELSE /\ log' = Append(log, "norm3_failed")
                /\ UNCHANGED <<norm3, data_dir>>
    /\ pc' = AfterBranch3
    /\ UNCHANGED <<files, f3, f2, txt3, df3, txt2, df2, norm2, raw_dir, exit_code, call, ret>>

\* txt2 = download_text(f2.download_url), outside any try
Download2 ==
    /\ pc = "dl2"
    /\ \/ /\ \E t \in MainTexts : txt2' = Some(t)
          /\ pc' = "raw2"
          /\ log' = Append(log, "dl2")
          /\ UNCHANGED exit_code
       \/ /\ Raise("dl2_failed")
          /\ UNCHANGED txt2
    /\ UNCHANGED <<files, f3, f2, txt3, df3, norm3, df2, norm2, raw_dir, data_dir, call, ret>>

\* open(os.path.join(RAW_DIR, f2.name), "w").write(txt2)
WriteRaw2 ==
    /\ pc = "raw2"
    /\ raw_dir' = {r \in raw_dir : r.name # f2[1].name}
                     \cup {[name |-> f2[1].name, text |-> txt2[1]]}
    /\ pc' = "parse2"
    /\ log' = Append(log, "raw2")
    /\ UNCHANGED <<files, f3, f2, txt3, df3, norm3, txt2, df2, norm2, data_dir, exit_code, call, ret>>

\* df2 = parse_table(txt2, f2.name), outside the try
Parse2 ==
    /\ pc = "parse2"
    /\ LET r == parse_table(txt2[1], f2[1].name)
       IN  IF r.ok
           THEN /\ df2' = Some(r.val)
                /\ pc' = "norm2"
                /\ log' = Append(log, "parse2")
                /\ UNCHANGED exit_code
           ELSE /\ Raise("parse2_failed")
                /\ UNCHANGED df2
    /\ UNCHANGED <<files, f3, f2, txt3, df3, norm3, txt2, norm2, raw_dir, data_dir, call, ret>>

\* try: norm2 = normalize_2x(df2); save_json(...)  except Exception: print
Normalize2 ==
    /\ pc = "norm2"
    /\ LET r == normalize_2x(df2[1])
       IN  IF r.ok
           THEN /\ norm2' = Some(r.val)
                /\ data_dir' = data_dir \cup {Cat2x}
                /\ log' = Append(log, "cat2")
           ELSE /\ log' = Append(log, "norm2_failed")
                /\ UNCHANGED <<norm2, data_dir>>
    /\ pc' = "end"
    /\ UNCHANGED <<files, f3, f2, txt3, df3, norm3, txt2, df2, raw_dir, exit_code, call, ret>>

\* print("Done."); return 0
Done ==
    /\ pc = "end"
    /\ pc' = "done"
    /\ exit_code' = Some(0)
    /\ UNCHANGED <<files, f3, f2, txt3, df3, norm3, txt2, df2, norm2, raw_dir, data_dir, log, call, ret>>

Next ==
    \/ ListFiles \/ PickFiles
    \/ Download3 \/ WriteRaw3 \/ Parse3 \/ Normalize3
    \/ Download2 \/ WriteRaw2 \/ Parse2 \/ Normalize2
    \/ Done

Init == InitMain

Spec == Init /\ [][Next]_vars

(***************************************************************************)
(* Claims about main                                                       *)
(***************************************************************************)
ExitedWith(code) == exit_code = Some(code)

\* the 2.x branch met no failure of its own before its normalization
No2xTransportOrParseFailure == ~InLog("dl2_failed") /\ ~InLog("parse2_failed")

\* parse_table failed on the 3.x text with its own "Unsupported file format"
FormatFailure3 ==
    /\ InLog("parse3_failed")
    /\ ~EndsWith(Lower(f3[1].name), ExtTsv) /\ ~EndsWith(Lower(f3[1].name), ExtCsv)
    /\ ~JsonLoads(txt3[1]).ok

\* C1: when both files are located and the 3.x branch succeeds, a failed
\* 2.x download still lets the run complete with code 0, with the 3.x
\* catalog written and no 2.x catalog.
C1_Download2FailureIsWarning ==
    (Terminal /\ InLog("cat3") /\ InLog("dl2_failed")) =>
        /\ pc = "done" /\ ExitedWith(0)
        /\ Cat3x \in data_dir /\ Cat2x \notin data_dir

\* C2: a normalization failure on either branch is caught at that branch:
\* no catalog is written for the failing branch, the other branch is still
\* downloaded, parsed, normalized and persisted, and the run reaches Done
\* with code 0.
C2_NormalizationFailureIsolated ==
    /\ (log # <<>> /\ log[Len(log)] = "norm3_failed") => pc \in {"dl2", "end", "done"}
    /\ InLog("norm3_failed") => Cat3x \notin data_dir
    /\ InLog("norm2_failed") => Cat2x \notin data_dir
    /\ (Terminal /\ InLog("norm3_failed") /\ f2 # None) =>
           (InLog("dl2") \/ InLog("dl2_failed"))
    /\ (Terminal /\ InLog("norm3_failed") /\ InLog("parse2") /\ ~InLog("norm2_failed")) =>
           (Cat2x \in data_dir /\ norm2 # None)
    /\ (Terminal /\ InLog("norm3_failed") /\ No2xTransportOrParseFailure) =>
           (pc = "done" /\ ExitedWith(0))
    /\ (Terminal /\ InLog("norm2_failed")) =>
           /\ pc = "done" /\ ExitedWith(0)
           /\ InLog("cat3") <=> Cat3x \in data_dir

\* the 3.x normalization failed and the 2.x catalog was written all the same
C2_Witness ==
    /\ pc = "done" /\ ExitedWith(0)
    /\ InLog("norm3_failed") /\ Cat3x \notin data_dir
    /\ InLog("dl2") /\ InLog("parse2") /\ Cat2x \in data_dir

\* C3: a format failure of parse_table on the 3.x text is caught at the
\* branch boundary: the 2.x branch is still downloaded, and when it meets
\* no failure of its own its catalog is written and the run completes with
\* code 0.
C3_FormatFailureIsolated ==
    (Terminal /\ FormatFailure3) =>
        /\ f2 # None => (InLog("dl2") \/ InLog("dl2_failed"))
        /\ No2xTransportOrParseFailure => (pc = "done" /\ ExitedWith(0))

\* C4: without a 3.x file the run ends with a non-zero code, downloads
\* nothing and writes nothing; once the 3.x file is downloaded, every later
\* failure leaves the completion code at 0.
C4_NonZeroOnlyWithout3x ==
    Terminal =>
        /\ (InLog("list") /\ f3 = None) =>
               /\ exit_code # None /\ ~ExitedWith(0)
               /\ ~InLog("dl3") /\ ~InLog("dl3_failed")
               /\ ~InLog("dl2") /\ ~InLog("dl2_failed")
               /\ raw_dir = {} /\ data_dir = {}
        /\ InLog("dl3") => ExitedWith(0)

\* C13: for a JSON tree, parse_table followed by normalize_3x preserves the
\* ancestor path: every entry of the 3.x catalog has the path the tree
\* walker synthesized for its node, the ancestor labels followed by the
\* node's own label.
C13_TreePathPreserved ==
    (norm3 # None /\ df3 # None /\ df3[1].columns = TreeColumns) =>
        LET out  == norm3[1]
            rows == df3[1].rows
        IN  /\ Len(out) = Len(rows)
            /\ \A i \in 1..Len(out) :
                   [j \in 1..Len(out[i].path) |-> VStr(out[i].path[j])] = rows[i][3].a

\* the raw file of a branch: the downloaded text under the upstream name
RawOf(f, txt) == [name |-> f[1].name, text |-> txt[1]]

\* the position of the first occurrence of an event in the log, 0 if none
FirstAt(e) ==
    IF InLog(e) THEN CHOOSE i \in 1..Len(log) : log[i] = e /\ \A j \in 1..(i - 1) : log[j] # e
    ELSE 0

Events2x == {"dl2", "dl2_failed", "raw2", "parse2", "parse2_failed", "cat2", "norm2_failed"}

\* C14: in every run of main the raw text of a branch whose download
\* succeeded is written under the raw directory, named as the upstream file,
\* before the branch is parsed; the raw file exists whenever the branch's
\* catalog is written and when its parse or normalization fails; no 2.x
\* download, raw write or catalog write happens before the 3.x branch ended.
C14_RawBeforeParse ==
    /\ (pc = "parse3" \/ \E e \in {"parse3", "parse3_failed", "cat3", "norm3_failed"} : InLog(e))
           => RawOf(f3, txt3) \in raw_dir
    /\ (pc = "parse2" \/ \E e \in {"parse2", "parse2_failed", "cat2", "norm2_failed"} : InLog(e))
           => RawOf(f2, txt2) \in raw_dir
    /\ (Terminal /\ InLog("dl3")) => RawOf(f3, txt3) \in raw_dir
    /\ (Terminal /\ InLog("dl2")) => RawOf(f2, txt2) \in raw_dir
    /\ Cat3x \in data_dir => RawOf(f3, txt3) \in raw_dir
    /\ Cat2x \in data_dir => RawOf(f2, txt2) \in raw_dir
    /\ \A r \in raw_dir : (f3 # None /\ r.name = f3[1].name) \/ (f2 # None /\ r.name = f2[1].name)
    /\ \A e \in Events2x :
           InLog(e) => \E d \in {"cat3", "norm3_failed"} : InLog(d) /\ FirstAt(d) < FirstAt(e)

\* both branches ran to their catalogs, each with its raw file in place
C14_Witness ==
    /\ pc = "done"
    /\ Cat3x \in data_dir /\ Cat2x \in data_dir
    /\ RawOf(f3, txt3) \in raw_dir /\ RawOf(f2, txt2) \in raw_dir
    /\ Cardinality(raw_dir) = 2
    /\ FirstAt("raw3") < FirstAt("parse3") /\ FirstAt("cat3") < FirstAt("dl2")
    /\ FirstAt("raw2") < FirstAt("parse2")

====
